---------------------------- MODULE Spec2Model ----------------------------
(***************************************************************************)
(* The tarot reading engine of TaroWebSite, in its two deployments:        *)
(*   backend_Gemeni/app.py     - the streaming variant (server-sent events  *)
(*                               produced by the generator event_stream),   *)
(*   backend_localLAMA/app.py  - the synchronous local variant (asyncio     *)
(*                               handler, generation in the default         *)
(*                               executor, translation around it).          *)
(* Text is a sequence of Unicode code points.  The modules layout.py and   *)
(* translator.py are not part of the sources at hand: TarotModel,          *)
(* detect_language and the two translate functions are modelled from the   *)
(* specification.                                                          *)
(***************************************************************************)
EXTENDS Integers, Sequences, FiniteSets, TLC

VARIABLES variant, client, stream, req, loop, proc, env, resolved

vars == <<variant, client, stream, req, loop, proc, env, resolved>>

-----------------------------------------------------------------------------
(* Bounds of the model *)

NumRequests == 2
MaxFragments == 3

(* Program constants *)

MaxQueryLen == 500
StreamMinLen == 10
LocalMinLen == 1

-----------------------------------------------------------------------------
(* Inputs *)

Requests == 1..NumRequests

Layouts == {"linear", "balance", "advice"}

Options == Layouts \cup {"circular"}

\* a text of n code points: c first, d for the rest
Fill(n, c, d) == [i \in 1..n |-> IF i = 1 THEN c ELSE d]

\* 32 space, 97 'a', 1103 Cyrillic 'ya', 1105 Cyrillic 'yo',
\* 1110 Cyrillic 'i' (Ukrainian)
StreamQueries ==
    { Fill(n, c, d) : n \in {StreamMinLen - 1, StreamMinLen, MaxQueryLen + 1},
                      c \in {97, 1103}, d \in {32, 97, 1103, 1105, 1110} }

LocalQueries == { <<>>, <<97>>, <<1103, 97>> }

\* what the backend stream can deliver as the text of one fragment
FragmentTexts == { <<>>, <<97>>, <<98>> }

\* a fragment of the backend stream: its text can be absent (None)
Fragments ==
    { [present |-> TRUE, text |-> t] : t \in FragmentTexts }
        \cup { [present |-> FALSE, text |-> <<>>] }

\* what the local runner can return: " a\n" and "\ta</s> "
RunnerTexts == { <<32, 97, 10>>, <<9, 97, 60, 47, 115, 62, 32>> }

\* stop = ["</s>", "[INST]", "Question:", "Cards:", "\n\n\n\n", "QUESTION:"]
StopSequences ==
    { <<60, 47, 115, 62>>,
      <<91, 73, 78, 83, 84, 93>>,
      <<81, 117, 101, 115, 116, 105, 111, 110, 58>>,
      <<67, 97, 114, 100, 115, 58>>,
      <<10, 10, 10, 10>>,
      <<81, 85, 69, 83, 84, 73, 79, 78, 58>> }

\* the draws TarotModel can make, and the draw the local runs are explored with
Spreads == {"spreadA", "spreadB"}

LocalSpreads == {"spreadA"}

\* the exceptions the runner can raise, and those a translation can raise
Raisable == {"ValueError", "TimeoutError", "Exception"}

TranslationRaisable == {"TimeoutError", "Exception"}

None == "None"

-----------------------------------------------------------------------------
(* Pure functions *)

\* Query(..., pattern="^(linear|balance|advice)$")
ValidOption_Any(o) == TRUE

ValidOption(o) == o \in Layouts

\* Query(..., min_length=.., max_length=500)
ValidQuery(q, minLen) == Len(q) >= minLen /\ Len(q) <= MaxQueryLen

\* re.findall(r'[а-яА-ЯёЁ]', query): the code points the class matches
MatchesCyrillicClass_NoYo(c) ==
    \/ c >= 1072 /\ c <= 1103
    \/ c >= 1040 /\ c <= 1071

MatchesCyrillicClass(c) ==
    \/ c >= 1072 /\ c <= 1103
    \/ c >= 1040 /\ c <= 1071
    \/ c = 1105
    \/ c = 1025

\* cyrillic = len(re.findall(...)); language = "ru" if cyrillic > 0 else "en"
StreamLanguage(q) ==
    IF Cardinality({i \in 1..Len(q) : MatchesCyrillicClass(q[i])}) > 0
    THEN "ru" ELSE "en"

\* translator.detect_language
detect_language(q) ==
    IF \E i \in 1..Len(q) : q[i] >= 1024 /\ q[i] <= 1279 THEN "ru" ELSE "en"

\* translator.translate_query_to_english, when it succeeds
translate_query_to_english(q) ==
    [i \in 1..Len(q) |-> IF q[i] >= 1024 /\ q[i] <= 1279 THEN 122 ELSE q[i]]

\* translator.translate_response_to_russian, when it succeeds
translate_response_to_russian(a) ==
    [i \in 1..Len(a) |-> IF a[i] >= 97 /\ a[i] <= 122 THEN 1103 ELSE a[i]]

\* str.isspace() of one code point
IsSpace(c) == c \in {9, 10, 11, 12, 13, 28, 29, 30, 31, 32, 133, 160}

RECURSIVE LStrip(_)
LStrip(s) == IF s # <<>> /\ IsSpace(Head(s)) THEN LStrip(Tail(s)) ELSE s

RECURSIVE RStrip(_)
RStrip(s) ==
    IF s # <<>> /\ IsSpace(s[Len(s)]) THEN RStrip(SubSeq(s, 1, Len(s) - 1)) ELSE s

\* str.strip()
Strip_LeftOnly(s) == LStrip(s)

Strip(s) == RStrip(LStrip(s))

\* the except clauses of get_tarot_reading, in their order
HttpStatus(exc) ==
    IF exc = "ValueError" THEN 400
    ELSE IF exc = "FileNotFoundError" THEN 500
    ELSE IF exc = "TimeoutError" THEN 504
    ELSE 500

\* layout.TarotModel: the prompt rendered from layout, spread and query
Render(o, s, q) == [layout |-> o, cards |-> s, query |-> q]

NoPrompt == Render(None, None, <<>>)

-----------------------------------------------------------------------------
(* Decoding parameters of the local variant: the os.getenv calls inside    *)
(* the executor lambda.  A float is held in hundredths.                    *)

ParamNames == {"MAX_NEW_TOKENS", "TEMPERATURE", "TOP_K", "TOP_P", "REPETITION_PENALTY"}

\* option.upper()
Upper(o) ==
    CASE o = "linear" -> "LINEAR"
      [] o = "balance" -> "BALANCE"
      [] o = "advice" -> "ADVICE"
      [] OTHER -> o

\* f"{option.upper()}_MAX_NEW_TOKENS" and the like
EnvKey_Shared(o, p) == <<"LINEAR", p>>

EnvKey(o, p) == <<Upper(o), p>>

\* the configuration entries an operator can set
EnvKeys == {"LINEAR", "BALANCE", "ADVICE"} \X ParamNames

\* the second argument of each os.getenv: "800", "0.7", "25", "0.85", "1.15"
DefaultText(p) ==
    CASE p = "MAX_NEW_TOKENS" -> <<56, 48, 48>>
      [] p = "TEMPERATURE" -> <<48, 46, 55>>
      [] p = "TOP_K" -> <<50, 53>>
      [] p = "TOP_P" -> <<48, 46, 56, 53>>
      [] p = "REPETITION_PENALTY" -> <<49, 46, 49, 53>>

\* the value an operator may have set: "400", "0.9", "40", "0.95", "1.2"
OverrideText(p) ==
    CASE p = "MAX_NEW_TOKENS" -> <<52, 48, 48>>
      [] p = "TEMPERATURE" -> <<48, 46, 57>>
      [] p = "TOP_K" -> <<52, 48>>
      [] p = "TOP_P" -> <<48, 46, 57, 53>>
      [] p = "REPETITION_PENALTY" -> <<49, 46, 50>>

Unset == [set |-> FALSE, value |-> <<>>]

\* the environments: any set of the keys carries its override
Envs ==
    { [k \in EnvKeys |-> IF k \in S THEN [set |-> TRUE, value |-> OverrideText(k[2])]
                                     ELSE Unset] : S \in SUBSET EnvKeys }

\* the environment the request runs are explored with
MainEnv ==
    [k \in EnvKeys |-> IF k = <<"LINEAR", "TOP_K">>
                       THEN [set |-> TRUE, value |-> OverrideText("TOP_K")]
                       ELSE Unset]

\* os.getenv(key, default)
GetEnv(e, k, default) ==
    IF k \in DOMAIN e /\ e[k].set THEN e[k].value ELSE default

\* int(text) of a text of decimal digits
RECURSIVE ParseInt(_)
ParseInt(t) ==
    IF t = <<>> THEN 0
    ELSE ParseInt(SubSeq(t, 1, Len(t) - 1)) * 10 + (t[Len(t)] - 48)

\* float(text) of a decimal with at most two places, in hundredths
ParseFloat(t) ==
    IF \E i \in 1..Len(t) : t[i] = 46
    THEN LET dot  == CHOOSE i \in 1..Len(t) : t[i] = 46
             frac == SubSeq(t, dot + 1, Len(t))
         IN  ParseInt(SubSeq(t, 1, dot - 1)) * 100
               + (IF Len(frac) = 1 THEN ParseInt(frac) * 10 ELSE ParseInt(frac))
    ELSE ParseInt(t) * 100

\* the keyword arguments of llm_model for a request of layout o
GenerationParams(e, o) ==
    [max_new_tokens |->
         ParseInt(GetEnv(e, EnvKey(o, "MAX_NEW_TOKENS"), DefaultText("MAX_NEW_TOKENS"))),
     temperature |->
         ParseFloat(GetEnv(e, EnvKey(o, "TEMPERATURE"), DefaultText("TEMPERATURE"))),
     top_k |->
         ParseInt(GetEnv(e, EnvKey(o, "TOP_K"), DefaultText("TOP_K"))),
     top_p |->
         ParseFloat(GetEnv(e, EnvKey(o, "TOP_P"), DefaultText("TOP_P"))),
     repetition_penalty |->
         ParseFloat(GetEnv(e, EnvKey(o, "REPETITION_PENALTY"),
                           DefaultText("REPETITION_PENALTY")))]

NoParams ==
    [max_new_tokens |-> 0, temperature |-> 0, top_k |-> 0, top_p |-> 0,
     repetition_penalty |-> 0]

NotResolved == [option |-> None, params |-> NoParams]

\* the lambda's arguments are evaluated for one request of layout o
ResolveParams(o) ==
    /\ variant = "params"
    /\ resolved' = [option |-> o, params |-> GenerationParams(env, o)]
    /\ UNCHANGED <<variant, client, stream, req, loop, proc, env>>

-----------------------------------------------------------------------------
(* Process start and the card catalog: lifespan and load_card_data of both *)
(* variants                                                                *)

\* card_data.json as the process finds it: no file, a file that is not JSON,
\* JSON whose card records lack their meaning fields, a well-formed catalog
FileKinds == {"absent", "unparseable", "incomplete", "wellformed"}

ProcStart(f) == [phase |-> "starting", file |-> f, cache |-> None, loads |-> 0]

\* open(card_path) and json.load(f): the exception raised, if any
ReadRaises(f) ==
    IF f = "absent" THEN "FileNotFoundError"
    ELSE IF f = "unparseable" THEN "ValueError"
    ELSE None

\* @lru_cache(maxsize=1): a result is cached once a call has returned
CacheHit_Never(p) == FALSE

CacheHit(p) == p.cache # None

\* the exception load_card_data() raises, if any
LoadRaises(p) == IF CacheHit(p) THEN None ELSE ReadRaises(p.file)

\* the process after a call of load_card_data() that returned
AfterLoad(p) ==
    IF CacheHit(p) THEN p
    ELSE [p EXCEPT !.loads = @ + 1, !.cache = p.file]

\* layout.TarotModel can draw and render from this catalog
CatalogUsable(d) == d = "wellformed"

\* lifespan: load_card_data() before the first request is served; an
\* exception there ends the startup
Startup ==
    /\ proc.phase = "starting"
    /\ IF LoadRaises(proc) # None
       THEN proc' = [proc EXCEPT !.phase = "failed", !.loads = @ + 1]
       ELSE proc' = [AfterLoad(proc) EXCEPT !.phase = "serving"]
    /\ UNCHANGED <<env, resolved, variant, client, stream, req, loop>>

-----------------------------------------------------------------------------
(* The streaming variant: backend_Gemeni/app.py *)

MetadataEvent(o, q, c, l) ==
    [type |-> "metadata", option |-> o, query |-> q, cards |-> c, language |-> l]

ChunkEvent(t) == [type |-> "answer_chunk", answer_chunk |-> t]

DoneEvent == [type |-> "done"]

StreamIdle ==
    [pc |-> "idle", option |-> None, query |-> <<>>, cards |-> None,
     language |-> None, consumer |-> "none", events |-> <<>>, fetched |-> <<>>,
     status |-> 0, raised |-> None, calls |-> 0, data |-> None]

\* the body of an asynchronous generator runs only while its consumer is
\* waiting for the next item
Driven_Always(s) == TRUE

Driven(s) == s.consumer = "waiting"

\* GET /tarot: parameter validation, then the handler up to its return
StreamRequest(o, q) ==
    /\ variant = "stream"
    /\ proc.phase = "serving"
    /\ stream.pc = "idle"
    /\ IF ~(ValidOption(o) /\ ValidQuery(q, StreamMinLen))
       THEN /\ stream' = [stream EXCEPT !.pc = "rejected", !.option = o,
                                        !.query = q, !.status = 422]
            /\ proc' = proc
       ELSE IF LoadRaises(proc) # None
       THEN /\ stream' = [stream EXCEPT !.pc = "failed", !.option = o, !.query = q,
                                        !.status = HttpStatus(LoadRaises(proc))]
            /\ proc' = [proc EXCEPT !.loads = @ + 1]
       ELSE IF o \notin Layouts
       THEN /\ stream' = [stream EXCEPT !.pc = "failed", !.option = o, !.query = q,
                                        !.data = AfterLoad(proc).cache,
                                        !.status = HttpStatus("ValueError")]
            /\ proc' = AfterLoad(proc)
       ELSE IF ~CatalogUsable(AfterLoad(proc).cache)
       THEN /\ stream' = [stream EXCEPT !.pc = "failed", !.option = o, !.query = q,
                                        !.data = AfterLoad(proc).cache,
                                        !.status = HttpStatus("Exception")]
            /\ proc' = AfterLoad(proc)
       ELSE /\ \E s \in Spreads :
                 stream' = [stream EXCEPT !.pc = "created", !.option = o,
                                          !.query = q, !.cards = s,
                                          !.data = AfterLoad(proc).cache,
                                          !.language = StreamLanguage(q),
                                          !.consumer = "holding",
                                          !.status = 200]
            /\ proc' = AfterLoad(proc)
    /\ UNCHANGED <<env, resolved, variant, client, req, loop>>

\* the response iterator asks event_stream for its next item
Pull ==
    /\ variant = "stream"
    /\ stream.pc \in {"created", "afterMeta", "iterating", "afterDone"}
    /\ stream.consumer = "holding"
    /\ stream' = [stream EXCEPT !.consumer = "waiting"]
    /\ UNCHANGED <<env, resolved, variant, client, req, loop, proc>>

\* the caller stops consuming: event_stream stays suspended at its yield
Disconnect ==
    /\ variant = "stream"
    /\ stream.pc \in {"created", "afterMeta", "iterating", "afterDone"}
    /\ stream.consumer = "holding"
    /\ stream' = [stream EXCEPT !.consumer = "gone"]
    /\ UNCHANGED <<env, resolved, variant, client, req, loop, proc>>

\* yield of initial_data
EmitMetadata ==
    /\ variant = "stream"
    /\ stream.pc = "created"
    /\ Driven(stream)
    /\ stream' = [stream EXCEPT
                    !.pc = "afterMeta",
                    !.consumer = "holding",
                    !.events = Append(@, MetadataEvent(stream.option, stream.query,
                                                       stream.cards, stream.language))]
    /\ UNCHANGED <<env, resolved, variant, client, req, loop, proc>>

\* an exception leaves event_stream: the response ends there
GeneratorRaises(k) ==
    stream' = [stream EXCEPT !.pc = "aborted", !.raised = k, !.consumer = "holding"]

\* client.models.generate_content_stream(...)
CallBackend ==
    /\ variant = "stream"
    /\ stream.pc = "afterMeta"
    /\ Driven(stream)
    /\ IF client = "none"
       THEN GeneratorRaises("AttributeError")
       ELSE \/ stream' = [stream EXCEPT !.pc = "iterating", !.calls = @ + 1]
            \/ \E k \in {"TimeoutError", "Exception"} :
                 stream' = [stream EXCEPT !.pc = "aborted", !.raised = k,
                                          !.consumer = "holding", !.calls = @ + 1]
    /\ UNCHANGED <<env, resolved, variant, client, req, loop, proc>>

\* if chunk.text:
HasText_NotNone(ch) == ch.present

HasText(ch) == ch.present /\ ch.text # <<>>

\* one turn of "for chunk in response_stream": a fragment, the end, or a raise
ReadFragment ==
    /\ variant = "stream"
    /\ stream.pc = "iterating"
    /\ Driven(stream)
    /\ \/ /\ Len(stream.fetched) < MaxFragments
          /\ \E ch \in Fragments :
               IF HasText(ch)
               THEN stream' = [stream EXCEPT !.fetched = Append(@, ch),
                                             !.events = Append(@, ChunkEvent(ch.text)),
                                             !.consumer = "holding"]
               ELSE stream' = [stream EXCEPT !.fetched = Append(@, ch)]
       \/ stream' = [stream EXCEPT !.pc = "afterDone", !.consumer = "holding",
                                   !.events = Append(@, DoneEvent)]
       \/ \E k \in {"TimeoutError", "Exception"} : GeneratorRaises(k)
    /\ UNCHANGED <<env, resolved, variant, client, req, loop, proc>>

\* event_stream returns after the terminal event
Finish ==
    /\ variant = "stream"
    /\ stream.pc = "afterDone"
    /\ Driven(stream)
    /\ stream' = [stream EXCEPT !.pc = "closed", !.consumer = "holding"]
    /\ UNCHANGED <<env, resolved, variant, client, req, loop, proc>>

-----------------------------------------------------------------------------
(* The local variant: backend_localLAMA/app.py *)

TarotResponse(o, q, c, a, l) ==
    [option |-> o, query |-> q, cards |-> c, answer |-> a, language |-> l]

NoResponse == TarotResponse(None, <<>>, None, <<>>, None)

ReqIdle ==
    [pc |-> "idle", option |-> None, raw |-> <<>>, query |-> <<>>, lang |-> None,
     cards |-> None, prompt |-> NoPrompt, gen |-> "none", exc |-> None,
     answer |-> <<>>, trace |-> <<>>, status |-> 0, response |-> NoResponse,
     failedAt |-> None, data |-> None, params |-> NoParams]

\* if lang != "en":  (before TarotModel)
TranslateBefore(l) == l # "en"

\* if lang != "en":  (after the generation)
TranslateAfter_Inverted(l) == l = "en"

TranslateAfter(l) == l # "en"

\* an exception raised inside the try block: the matching except clause
\* turns it into an HTTPException and the coroutine ends
HandlerRaises(r, k, at) ==
    /\ req' = [req EXCEPT ![r].pc = "error", ![r].exc = k,
                          ![r].status = HttpStatus(k), ![r].failedAt = at]
    /\ loop' = 0

\* GET /tarot: parameter validation, then the coroutine starts on the loop
Accept(r, o, q) ==
    /\ variant = "local"
    /\ proc.phase = "serving"
    /\ req[r].pc = "idle"
    /\ loop = 0
    /\ IF ~(ValidOption(o) /\ ValidQuery(q, LocalMinLen))
       THEN /\ req' = [req EXCEPT ![r].pc = "rejected", ![r].option = o,
                                  ![r].raw = q, ![r].status = 422]
            /\ loop' = loop
       ELSE /\ req' = [req EXCEPT ![r].pc = "start", ![r].option = o,
                                  ![r].raw = q, ![r].query = q]
            /\ loop' = r
    /\ UNCHANGED <<env, resolved, variant, client, stream, proc>>

\* lang = detect_language(query)
Detect(r) ==
    /\ variant = "local"
    /\ loop = r
    /\ req[r].pc = "start"
    /\ LET l == detect_language(req[r].query)
       IN  req' = [req EXCEPT ![r].lang = l,
                              ![r].trace = Append(@, "detect"),
                              ![r].pc = IF TranslateBefore(l) THEN "translate"
                                                              ELSE "build"]
    /\ UNCHANGED <<env, resolved, variant, client, stream, loop, proc>>

\* translate_query_to_english raises: no handler around the call but the
\* except clauses of the whole try block
QueryTranslationFails_Swallowed(r, k) ==
    /\ req' = [req EXCEPT ![r].pc = "build", ![r].failedAt = "translate_query",
                          ![r].trace = Append(@, "translate_query")]
    /\ loop' = loop

QueryTranslationFails(r, k) ==
    /\ req' = [req EXCEPT ![r].pc = "error", ![r].exc = k,
                          ![r].status = HttpStatus(k),
                          ![r].failedAt = "translate_query",
                          ![r].trace = Append(@, "translate_query")]
    /\ loop' = 0

\* query = translate_query_to_english(query)
TranslateQuery(r) ==
    /\ variant = "local"
    /\ loop = r
    /\ req[r].pc = "translate"
    /\ \/ /\ req' = [req EXCEPT ![r].query = translate_query_to_english(@),
                                ![r].trace = Append(@, "translate_query"),
                                ![r].pc = "build"]
          /\ loop' = loop
       \/ \E k \in TranslationRaisable : QueryTranslationFails(r, k)
    /\ UNCHANGED <<env, resolved, variant, client, stream, proc>>

\* model = TarotModel(option, query, data=load_card_data())
BuildModel(r) ==
    /\ variant = "local"
    /\ loop = r
    /\ req[r].pc = "build"
    /\ IF LoadRaises(proc) # None
       THEN /\ HandlerRaises(r, LoadRaises(proc), "load")
            /\ proc' = [proc EXCEPT !.loads = @ + 1]
       ELSE IF req[r].option \notin Layouts
       THEN /\ HandlerRaises(r, "ValueError", "model")
            /\ proc' = AfterLoad(proc)
       ELSE IF ~CatalogUsable(AfterLoad(proc).cache)
       THEN /\ HandlerRaises(r, "Exception", "model")
            /\ proc' = AfterLoad(proc)
       ELSE /\ \E s \in LocalSpreads :
                 req' = [req EXCEPT ![r].cards = s,
                                    ![r].data = AfterLoad(proc).cache,
                                    ![r].prompt = Render(req[r].option, s, req[r].query),
                                    ![r].pc = "dispatch"]
            /\ loop' = loop
            /\ proc' = AfterLoad(proc)
    /\ UNCHANGED <<env, resolved, variant, client, stream>>

\* await loop.run_in_executor(None, lambda: llm_model(...).strip()): the call
\* is handed to the default executor and the coroutine leaves the loop
Dispatch_Inline(r) ==
    /\ variant = "local"
    /\ loop = r
    /\ req[r].pc = "dispatch"
    /\ req' = [req EXCEPT ![r].gen = "queued", ![r].pc = "awaiting"]
    /\ UNCHANGED <<env, resolved, variant, client, stream, loop, proc>>

Dispatch(r) ==
    /\ variant = "local"
    /\ loop = r
    /\ req[r].pc = "dispatch"
    /\ req' = [req EXCEPT ![r].gen = "queued", ![r].pc = "awaiting"]
    /\ loop' = 0
    /\ UNCHANGED <<env, resolved, variant, client, stream, proc>>

\* a thread of the default executor takes the call and enters llm_model; the
\* pool has min(32, cpu_count + 4) threads and no lock guards llm_model
WorkerStart(r) ==
    /\ variant = "local"
    /\ req[r].gen = "queued"
    /\ req' = [req EXCEPT ![r].gen = "running",
                          ![r].params = GenerationParams(env, req[r].option),
                          ![r].trace = Append(@, "generate")]
    /\ UNCHANGED <<env, resolved, variant, client, stream, loop, proc>>

\* llm_model returns its text, stripped by the lambda, or raises
WorkerReturn(r) ==
    /\ variant = "local"
    /\ req[r].gen = "running"
    /\ \/ \E t \in RunnerTexts :
            req' = [req EXCEPT ![r].gen = "returned", ![r].answer = Strip(t)]
       \/ \E k \in Raisable :
            req' = [req EXCEPT ![r].gen = "raised", ![r].exc = k]
    /\ UNCHANGED <<env, resolved, variant, client, stream, loop, proc>>

\* the awaited future is done: the coroutine continues on the loop
Resume(r) ==
    /\ variant = "local"
    /\ loop = 0
    /\ req[r].pc = "awaiting"
    /\ req[r].gen \in {"returned", "raised"}
    /\ IF req[r].gen = "raised"
       THEN HandlerRaises(r, req[r].exc, "generate")
       ELSE /\ req' = [req EXCEPT ![r].pc = IF TranslateAfter(req[r].lang)
                                            THEN "translate_back" ELSE "respond"]
            /\ loop' = r
    /\ UNCHANGED <<env, resolved, variant, client, stream, proc>>

\* answer = translate_response_to_russian(answer)
TranslateAnswer(r) ==
    /\ variant = "local"
    /\ loop = r
    /\ req[r].pc = "translate_back"
    /\ \/ /\ req' = [req EXCEPT ![r].answer = translate_response_to_russian(@),
                                ![r].trace = Append(@, "translate_answer"),
                                ![r].pc = "respond"]
          /\ loop' = loop
       \/ /\ \E k \in TranslationRaisable :
               req' = [req EXCEPT ![r].pc = "error", ![r].exc = k,
                                  ![r].status = HttpStatus(k),
                                  ![r].failedAt = "translate_answer",
                                  ![r].trace = Append(@, "translate_answer")]
          /\ loop' = 0
    /\ UNCHANGED <<env, resolved, variant, client, stream, proc>>

\* return TarotResponse(option=option, query=query, cards=model.cards,
\*                      answer=answer, language=lang)
Respond(r) ==
    /\ variant = "local"
    /\ loop = r
    /\ req[r].pc = "respond"
    /\ req' = [req EXCEPT ![r].response =
                              TarotResponse(req[r].option, req[r].query,
                                            req[r].cards, req[r].answer, req[r].lang),
                          ![r].status = 200,
                          ![r].trace = Append(@, "respond"),
                          ![r].pc = "done"]
    /\ loop' = 0
    /\ UNCHANGED <<env, resolved, variant, client, stream, proc>>

-----------------------------------------------------------------------------
(* The system *)

Init ==
    /\ variant \in {"stream", "local"}
    /\ client \in IF variant = "stream" THEN {"none", "configured"} ELSE {"unused"}
    /\ stream = StreamIdle
    /\ req = [r \in Requests |-> ReqIdle]
    /\ loop = 0
    /\ proc \in {ProcStart(f) : f \in FileKinds}
    /\ env = MainEnv
    /\ resolved = NotResolved

Next ==
    \/ Startup
    \/ \E o \in Options, q \in StreamQueries : StreamRequest(o, q)
    \/ Pull
    \/ Disconnect
    \/ EmitMetadata
    \/ CallBackend
    \/ ReadFragment
    \/ Finish
    \/ \E r \in Requests, o \in Options, q \in LocalQueries : Accept(r, o, q)
    \/ \E r \in Requests : Detect(r)
    \/ \E r \in Requests : TranslateQuery(r)
    \/ \E r \in Requests : BuildModel(r)
    \/ \E r \in Requests : Dispatch(r)
    \/ \E r \in Requests : WorkerStart(r)
    \/ \E r \in Requests : WorkerReturn(r)
    \/ \E r \in Requests : Resume(r)
    \/ \E r \in Requests : TranslateAnswer(r)
    \/ \E r \in Requests : Respond(r)

Spec == Init /\ [][Next]_vars

\* the resolution of the decoding parameters alone, under every environment
InitParams ==
    /\ variant = "params"
    /\ client = "unused"
    /\ stream = StreamIdle
    /\ req = [r \in Requests |-> ReqIdle]
    /\ loop = 0
    /\ proc = ProcStart("wellformed")
    /\ env \in Envs
    /\ resolved = NotResolved

NextParams == \E o \in Layouts : ResolveParams(o)

SpecParams == InitParams /\ [][NextParams]_vars

-----------------------------------------------------------------------------
(* Properties *)

StreamEnded == stream.pc \in {"closed", "aborted"}

IsPrefix(s, t) == Len(s) <= Len(t) /\ SubSeq(t, 1, Len(s)) = s

\* one metadata event, then answer_chunk events only
MetadataThenChunks(ev) ==
    /\ Len(ev) >= 1
    /\ ev[1].type = "metadata"
    /\ \A i \in 2..Len(ev) : ev[i].type = "answer_chunk"

\* C1: every response stream is one metadata event, then zero or more
\* answer_chunk events, then exactly one terminal done event: nothing comes
\* before the metadata event or after the terminal one, and a stream that has
\* ended has its terminal event.
C1_EventOrder ==
    /\ stream.events # <<>> =>
         \/ MetadataThenChunks(stream.events)
         \/ /\ stream.events[Len(stream.events)].type = "done"
            /\ MetadataThenChunks(SubSeq(stream.events, 1, Len(stream.events) - 1))
    /\ StreamEnded =>
         /\ stream.events # <<>>
         /\ stream.events[Len(stream.events)].type = "done"

\* C2: a response stream that has emitted its metadata event and has ended,
\* normally or by an exception of the backend call or of a fragment read, has
\* the terminal event as its last event.
C2_LastIsTerminal ==
    (StreamEnded /\ Len(stream.events) >= 1 /\ stream.events[1].type = "metadata")
        => stream.events[Len(stream.events)].type = "done"

\* C3: without a credential (client is None) a valid reading request fails
\* fast with a backend-unavailable error of its own: no success stream is
\* started, no event is emitted, the status is neither 200 nor the generic 500,
\* and the remote call is not attempted.
C3_FailFast ==
    (variant = "stream" /\ client = "none"
        /\ stream.pc \notin {"idle", "rejected", "failed"})
        => /\ stream.status \notin {0, 200, 500}
           /\ stream.events = <<>>
           /\ stream.calls = 0

\* the steps of a local request whose detected language is l
FullTrace(l) ==
    IF l # "en"
    THEN <<"detect", "translate_query", "generate", "translate_answer", "respond">>
    ELSE <<"detect", "generate", "respond">>

\* C4: in the local variant the steps of a request are, in this order, detect,
\* translate query, generate, translate answer, respond, with the two
\* translation steps present exactly when the detected language is not "en";
\* the runner is given the prompt of the translated query in that case and of
\* the raw query otherwise.
C4_TranslationOrder ==
    \A r \in Requests :
        /\ req[r].trace # <<>> => IsPrefix(req[r].trace, FullTrace(req[r].lang))
        /\ req[r].pc = "done" => req[r].trace = FullTrace(req[r].lang)
        /\ req[r].gen # "none" =>
             req[r].prompt.query = IF req[r].lang # "en"
                                   THEN translate_query_to_english(req[r].raw)
                                   ELSE req[r].raw

C4_Witness ==
    \E r \in Requests :
        /\ req[r].pc = "done"
        /\ req[r].lang = "ru"
        /\ req[r].trace = FullTrace("ru")

\* C5: a local request whose query translation failed never reaches the
\* runner and ends in an error, and one whose answer translation failed ends
\* in an error; neither produces a TarotResponse.
C5_TranslationFailure ==
    \A r \in Requests :
        /\ req[r].failedAt = "translate_query" =>
             /\ req[r].gen = "none"
             /\ req[r].prompt = NoPrompt
             /\ req[r].pc = "error"
             /\ req[r].status >= 400
             /\ req[r].response = NoResponse
        /\ req[r].failedAt = "translate_answer" =>
             /\ req[r].pc = "error"
             /\ req[r].status >= 400
             /\ req[r].response = NoResponse

C5_Witness ==
    /\ \E r \in Requests : req[r].failedAt = "translate_query"
    /\ \E r \in Requests :
         /\ req[r].failedAt = "translate_answer"
         /\ req[r].gen = "returned"

\* C6: at most one call to llm_model is in progress at any time.
C6_OneAtATime ==
    Cardinality({r \in Requests : req[r].gen = "running"}) <= 1

\* C7: the generation of a local request never runs on the request-handling
\* loop: while it is queued or in progress the loop is free or serves another
\* request, and the handler of a request is past its await only when its own
\* generation call has returned.
C7_OffLoop ==
    \A r \in Requests :
        /\ req[r].gen \in {"queued", "running"} => loop # r
        /\ req[r].pc \in {"translate_back", "respond", "done"} =>
             req[r].gen = "returned"
        /\ loop = r => req[r].pc \in {"start", "translate", "build", "dispatch",
                                      "translate_back", "respond"}

\* a second request was taken up to its dispatch while a generation runs
C7_Witness ==
    \E r1, r2 \in Requests :
        /\ r1 # r2
        /\ req[r1].gen = "running"
        /\ loop = r2
        /\ req[r2].pc = "dispatch"

\* C8: a TimeoutError of the generation is reported to the caller with the
\* timeout status 504, in the local variant and in the streaming variant,
\* there also when it is raised after the stream has started.
C8_TimeoutReported ==
    /\ stream.raised = "TimeoutError" => stream.status = 504
    /\ \A r \in Requests :
         (req[r].pc = "error" /\ req[r].exc = "TimeoutError") => req[r].status = 504

C10_InvalidLayout ==
    /\ (stream.pc # "idle" /\ stream.option \notin Layouts) =>
         /\ stream.status \in {400, 422}
         /\ stream.cards = None
         /\ stream.events = <<>>
         /\ stream.calls = 0
    /\ \A r \in Requests :
         (req[r].pc # "idle" /\ req[r].option \notin Layouts) =>
             /\ req[r].status \in {400, 422}
             /\ req[r].cards = None
             /\ req[r].trace = <<>>
             /\ req[r].query = <<>>
             /\ req[r].gen = "none"
             /\ req[r].response = NoResponse

C10_Witness ==
    \E r1, r2 \in Requests :
        /\ r1 # r2
        /\ req[r1].option = "circular"
        /\ req[r1].pc = "rejected"
        /\ req[r2].pc = "done"

\* a text with no whitespace at either end
Trimmed(a) == a = <<>> \/ (~IsSpace(a[1]) /\ ~IsSpace(a[Len(a)]))

Contains(s, sub) ==
    \E i \in 1..(Len(s) - Len(sub) + 1) : SubSeq(s, i, i + Len(sub) - 1) = sub

\* C12: the answer of every successful local response contains none of the
\* stop sequences passed to the runner, whatever text the runner returned.
C12_NoStopSequence ==
    \A r \in Requests :
        req[r].pc = "done" =>
            \A st \in StopSequences : ~Contains(req[r].response.answer, st)

\* C13: the query field delivered to the caller is the raw query of the
\* request and the language field is the language detected from it, in the
\* TarotResponse of the local variant and in the metadata event of the
\* streaming variant.
C13_QueryEchoed ==
    /\ \A r \in Requests :
         req[r].pc = "done" =>
             /\ req[r].response.query = req[r].raw
             /\ req[r].response.language = detect_language(req[r].raw)
    /\ stream.events # <<>> =>
         /\ stream.events[1].query = stream.query
         /\ stream.events[1].language = StreamLanguage(stream.query)

\* C14: when the catalog resource is missing or malformed at process start
\* (no file, a file that does not parse, or card records without their
\* meaning fields) the startup fails and the service never serves a request.
C14_StartupFatal ==
    proc.file \in {"absent", "unparseable", "incomplete"} =>
        /\ proc.phase # "serving"
        /\ stream.pc = "idle"
        /\ \A r \in Requests : req[r].pc = "idle"

\* C16: after a successful startup the catalog has been read from its
\* resource exactly once, whatever requests follow; every request is handed
\* the value the startup loaded, and no step of a request handler changes the
\* cached catalog or reads the resource again.
C16_LoadedOnce ==
    /\ [](proc.phase = "serving" =>
            /\ proc.loads = 1
            /\ proc.cache = proc.file
            /\ stream.data \in {None, proc.cache}
            /\ \A r \in Requests : req[r].data \in {None, proc.cache})
    /\ [][proc.phase = "serving" => proc' = proc]_vars

\* two requests generating at the same time, both handed the startup's catalog
C16_Witness ==
    /\ proc.phase = "serving"
    /\ proc.loads = 1
    /\ \E r1, r2 \in Requests :
         /\ r1 # r2
         /\ req[r1].gen = "running"
         /\ req[r2].gen = "running"
         /\ req[r1].data = proc.cache
         /\ req[r2].data = proc.cache

\* the stream has taken a request through language detection
Detected == variant = "stream" /\ stream.pc \notin {"idle", "rejected", "failed"}

\* C15 as stated: the language tag of the streaming variant is "ru" when the
\* query contains at least one character of the Cyrillic block and "en" when
\* it contains none.
C15_AnyCyrillic ==
    Detected =>
        stream.language =
            IF \E i \in 1..Len(stream.query) :
                   stream.query[i] >= 1024 /\ stream.query[i] <= 1279
            THEN "ru" ELSE "en"

\* the letters of the Russian alphabet: U+0410..U+044F, U+0401, U+0451
RussianLetters == (1040..1103) \cup {1025, 1105}

\* C15 (amended): the language tag of the streaming variant, also as carried
\* by the metadata event, is "ru" when the query contains at least one letter
\* of the Russian alphabet, alone or mixed with Latin letters, and "en"
\* otherwise, in particular for a purely Latin-script query.
C15_RussianLetters ==
    Detected =>
        /\ stream.language =
             IF \E i \in 1..Len(stream.query) : stream.query[i] \in RussianLetters
             THEN "ru" ELSE "en"
        /\ stream.events # <<>> => stream.events[1].language = stream.language

\* a query of Latin 'a' followed by the letter yo only, tagged "ru"
C15_Witness ==
    /\ Detected
    /\ stream.events # <<>>
    /\ stream.query[1] = 97
    /\ stream.query[2] = 1105
    /\ stream.language = "ru"

IsChunk(e) == e.type = "answer_chunk"

Forwardable(ch) == ch.present /\ ch.text # <<>>

\* C18: every answer_chunk event carries a non-empty text, and the
\* answer_chunk events are exactly the backend fragments with a non-empty
\* text, one event each, in the order the backend delivered them; a fragment
\* whose text is empty or absent has no event.
C18_ChunksForwarded ==
    LET chunks == SelectSeq(stream.events, IsChunk)
        kept   == SelectSeq(stream.fetched, Forwardable)
    IN  /\ Len(chunks) = Len(kept)
        /\ \A i \in 1..Len(chunks) :
             /\ chunks[i].answer_chunk # <<>>
             /\ chunks[i].answer_chunk = kept[i].text

\* a fragment without text between two different fragments with text
C18_Witness ==
    /\ Len(stream.fetched) = 3
    /\ ~stream.fetched[2].present
    /\ Len(SelectSeq(stream.events, IsChunk)) = 2
    /\ stream.events[2].answer_chunk # stream.events[3].answer_chunk

\* the configuration entry of layout o for parameter p, as the claim names it
Entry(o, p) ==
    env[<< [linear |-> "LINEAR", balance |-> "BALANCE", advice |-> "ADVICE"][o], p >>]

\* C17: the decoding parameters of a request of layout L are those of the
\* entries L_MAX_NEW_TOKENS, L_TEMPERATURE, L_TOP_K, L_TOP_P and
\* L_REPETITION_PENALTY, each replaced by its default (800, 0.7, 25, 0.85,
\* 1.15) when unset, whatever the entries of the other layouts are.
C17_ParamsPerLayout ==
    resolved.option \in Layouts =>
        LET o == resolved.option
            p == resolved.params
        IN  /\ p.max_new_tokens = IF Entry(o, "MAX_NEW_TOKENS").set THEN 400 ELSE 800
            /\ p.temperature = IF Entry(o, "TEMPERATURE").set THEN 90 ELSE 70
            /\ p.top_k = IF Entry(o, "TOP_K").set THEN 40 ELSE 25
            /\ p.top_p = IF Entry(o, "TOP_P").set THEN 95 ELSE 85
            /\ p.repetition_penalty =
                 IF Entry(o, "REPETITION_PENALTY").set THEN 120 ELSE 115

\* every entry of linear and balance overridden, of advice only TOP_P: a
\* request of advice has the defaults but for top_p
C17_Witness ==
    /\ resolved.option = "advice"
    /\ \A p \in ParamNames : Entry("linear", p).set /\ Entry("balance", p).set
    /\ \A p \in ParamNames : Entry("advice", p).set <=> p = "TOP_P"
    /\ resolved.params = [max_new_tokens |-> 800, temperature |-> 70, top_k |-> 25,
                          top_p |-> 95, repetition_penalty |-> 115]

=============================================================================
